---- MODULE Spec2Model ----
(***************************************************************************)
(* A model of chroma-viewer's display_collections (viewer.py): one run of  *)
(* the script over the collections the store lists.  For each collection   *)
(* the run fetches its arrays, reconciles them into a table, renders the   *)
(* browse tab and runs the query block.  The store (chromadb) and the user *)
(* (the values the widgets return) are the environment: every store call   *)
(* may raise or return any response of its shape, every widget may return  *)
(* any value of its range.                                                 *)
(***************************************************************************)
EXTENDS Integers, Sequences, FiniteSets, TLC

\* ------------------------------------------------------------ bounds
MaxLen == 2          \* longest array a store response holds
MaxCollections == 2  \* most collections the store lists
EmbDim == 2          \* components of an embedding vector
MaxOffset == 1       \* largest browse offset the user enters

\* ------------------------------------------------ program constants
NResultsMin == 1
NResultsMax == 50
NResultsDefault == 5
BrowseLimitMin == 1
BrowseLimitMax == 100
BrowseLimitDefault == 10

\* ------------------------------------------------------ Python values
\* An optional list: None, or a list of items.
None == [none |-> TRUE, items |-> <<>>]
List(s) == [none |-> FALSE, items |-> s]

\* Python truthiness of None or a list: `if ids`.
Truthy(a) == ~a.none /\ Len(a.items) > 0

Max2(a, b) == IF a >= b THEN a ELSE b
Min2(a, b) == IF a <= b THEN a ELSE b

SeqsUpTo(V, n) == UNION {[1..k -> V] : k \in 0..n}
Arrays(V) == {None} \cup {List(s) : s \in SeqsUpTo(V, MaxLen)}

\* One embedding is None or a vector of EmbDim floats (their values are
\* never read, only counted).
EmbeddingItems == {None, List([i \in 1..EmbDim |-> 0])}

\* What collection.get() may return for the four fields.
GetResults ==
  [ids : Arrays({"id"}), embeddings : Arrays(EmbeddingItems),
   metadatas : Arrays({"meta"}), documents : Arrays({"doc"})]

NoData == [ids |-> None, embeddings |-> None, metadatas |-> None, documents |-> None]

\* The collections a store may hold, in the order it lists them, and the
\* listings client.list_collections() may return: any of them, in that order.
Catalogue == <<"abc", "doc_abc", "xyz">>
Names == {Catalogue[i] : i \in 1..Len(Catalogue)}
Position(name) == CHOOSE i \in 1..Len(Catalogue) : Catalogue[i] = name
Listings ==
  {s \in SeqsUpTo(Names, MaxCollections) :
     \A i, j \in 1..Len(s) : i < j => Position(s[i]) < Position(s[j])}

\* ------------------------------------------------------- reconciler
\* lengths = {field: len(field) if field else 0}
Lengths(d) ==
  [ids |-> IF Truthy(d.ids) THEN Len(d.ids.items) ELSE 0,
   embeddings |-> IF Truthy(d.embeddings) THEN Len(d.embeddings.items) ELSE 0,
   metadatas |-> IF Truthy(d.metadatas) THEN Len(d.metadatas.items) ELSE 0,
   documents |-> IF Truthy(d.documents) THEN Len(d.documents.items) ELSE 0]

\* max(lengths.values())
MaxLength(l) == Max2(Max2(l.ids, l.embeddings), Max2(l.metadatas, l.documents))

\* `if field and len(field) == max_length`
Kept(field, m) == Truthy(field) /\ Len(field.items) = m

\* Mutant: the length of the whole array in place of each embedding's.
EmbeddingsCountOfArray(embeddings) ==
  [i \in 1..Len(embeddings.items) |-> Len(embeddings.items)]

\* [len(emb) if emb else 0 for emb in embeddings]
EmbeddingsCount(embeddings) ==
  [i \in 1..Len(embeddings.items) |->
     IF Truthy(embeddings.items[i]) THEN Len(embeddings.items[i].items) ELSE 0]

\* The keys of df_data.
DfColumns(d, m) ==
  {c \in {"ids", "documents", "metadatas", "embeddings_count"} :
     \/ c = "ids" /\ Kept(d.ids, m)
     \/ c = "documents" /\ Kept(d.documents, m)
     \/ c = "metadatas" /\ Kept(d.metadatas, m)
     \/ c = "embeddings_count" /\ Kept(d.embeddings, m)}

\* df_data: column name -> column.
DfData(d, m) ==
  [c \in DfColumns(d, m) |->
     CASE c = "ids" -> d.ids.items
       [] c = "documents" -> d.documents.items
       [] c = "metadatas" -> d.metadatas.items
       [] c = "embeddings_count" -> EmbeddingsCount(d.embeddings)]

EmptyDf == [c \in {} |-> <<>>]

\* Rows of pd.DataFrame(df_data): the common length of its columns.
Rows(df) == IF DOMAIN df = {} THEN 0 ELSE Len(df[CHOOSE c \in DOMAIN df : TRUE])

\* `len(ids)` on line 58 raises TypeError when ids is None.
LenRaises(a) == a.none

\* Mutant: the handler ends the listing.
OnCollectionErrorStop == "stop"

\* What the per-collection handler does with an exception.
OnCollectionError == "continue"

\* ---------------------------------------------------------- widgets
WidgetKinds ==
  {"query", "n_results", "distances", "where", "where_doc",
   "browse_limit", "browse_offset", "browse_btn"}

\* The prefix of each f"..._{collection.name}" key.
KeyPrefix(kind) ==
  CASE kind = "query" -> "query_"
    [] kind = "n_results" -> "n_results_"
    [] kind = "distances" -> "distances_"
    [] kind = "where" -> "where_"
    [] kind = "where_doc" -> "where_doc_"
    [] kind = "browse_limit" -> "browse_limit_"
    [] kind = "browse_offset" -> "browse_offset_"
    [] kind = "browse_btn" -> "browse_btn_"

\* key=f"{prefix}{collection.name}"
WidgetKey(kind, name) == KeyPrefix(kind) \o name

QueryWidgets == {"query", "n_results", "distances", "where", "where_doc"}
BrowseWidgets == {"browse_limit", "browse_offset", "browse_btn"}

\* Values the widgets may return.
QueryTexts == {"", "cats"}
NResultsValues == {NResultsMin, NResultsDefault, NResultsMax}
BrowseLimits == {BrowseLimitMin, BrowseLimitDefault, BrowseLimitMax}
BrowseOffsets == 0..MaxOffset
FilterTexts == {"", "{\"category\": \"science\"}", "{'category': 'science'}", "{}"}

\* ------------------------------------------------------------ browse
\* What collection.get(limit=, offset=) may return.
PageResults ==
  [ids : Arrays({"id"}), documents : Arrays({"doc"}), metadatas : Arrays({"meta"})]

NoPage == [ids |-> None, documents |-> None, metadatas |-> None]

\* Mutant: the offset is not passed on.
PageArgsNoOffset(browse_limit, browse_offset) == [limit |-> browse_limit, offset |-> 0]

\* collection.get(limit=browse_limit, offset=browse_offset)
PageArgs(browse_limit, browse_offset) == [limit |-> browse_limit, offset |-> browse_offset]

\* The keys of browse_data.
BrowseColumns(r) ==
  {c \in {"ids", "documents", "metadatas"} : Truthy(r[c])}

\* pd.DataFrame(dict of lists) raises ValueError unless all have one length.
DataFrameRaises(r, cols) ==
  \E a, b \in cols : Len(r[a].items) # Len(r[b].items)

NoBrowse == [kind |-> "none", rows |-> 0, from |-> 0, to |-> 0]
BrowseFailed == [kind |-> "browse_failed", rows |-> 0, from |-> 0, to |-> 0]

\* Lines 137-154: what the browse tab shows for a returned page.
BrowseView(r, browse_offset) ==
  IF Truthy(r.ids)
    THEN IF DataFrameRaises(r, BrowseColumns(r))
           THEN BrowseFailed
           ELSE [kind |-> "browse_table", rows |-> Len(r.ids.items),
                 from |-> browse_offset, to |-> browse_offset + Len(r.ids.items)]
    ELSE [kind |-> "browse_none", rows |-> 0, from |-> 0, to |-> 0]

\* ------------------------------------------------------------- query
\* Python values a filter text parses to.
PyNone == [type |-> "NoneType", size |-> 0]
PyDict(n) == [type |-> "dict", size |-> n]

\* Truthiness of a parsed value: `if where_dict`.
PyTruthy(v) == v.type = "dict" /\ v.size > 0

\* json.loads on the filter texts: the value, or JSONDecodeError (single
\* quotes and the empty text are not JSON).
JsonLoads(text) ==
  CASE text = "{\"category\": \"science\"}" -> [ok |-> TRUE, value |-> PyDict(1)]
    [] text = "{}" -> [ok |-> TRUE, value |-> PyDict(0)]
    [] text = "{'category': 'science'}" -> [ok |-> FALSE, value |-> PyNone]
    [] text = "" -> [ok |-> FALSE, value |-> PyNone]

\* Mutant: a JSONDecodeError is not caught by the filter's own handler.
ParseFilterAborting(text) ==
  IF text = ""
    THEN [dict |-> PyNone, warned |-> FALSE, raised |-> FALSE]
    ELSE IF JsonLoads(text).ok
           THEN [dict |-> JsonLoads(text).value, warned |-> FALSE, raised |-> FALSE]
           ELSE [dict |-> PyNone, warned |-> FALSE, raised |-> TRUE]

\* Lines 161-176, one filter: None unless the text is non-empty and parses;
\* a JSONDecodeError is caught and warned about, nothing is raised.
ParseFilter(text) ==
  IF text = ""
    THEN [dict |-> PyNone, warned |-> FALSE, raised |-> FALSE]
    ELSE IF JsonLoads(text).ok
           THEN [dict |-> JsonLoads(text).value, warned |-> FALSE, raised |-> FALSE]
           ELSE [dict |-> PyNone, warned |-> TRUE, raised |-> FALSE]

\* Mutant: `is not None` in place of truthiness.
QueryParamKeysNotNone(where_dict, where_document_dict) ==
  {"query_texts", "n_results"}
    \cup (IF where_dict # PyNone THEN {"where"} ELSE {})
    \cup (IF where_document_dict # PyNone THEN {"where_document"} ELSE {})

\* Lines 179-188: the keys of query_params.
QueryParamKeys(where_dict, where_document_dict) ==
  {"query_texts", "n_results"}
    \cup (IF PyTruthy(where_dict) THEN {"where"} ELSE {})
    \cup (IF PyTruthy(where_document_dict) THEN {"where_document"} ELSE {})

\* "n_results": min(n_results, max_length)
EffectiveNResults(n_results, max_length) == Min2(n_results, max_length)

\* Lines 179-188: query_params.
QueryParams(query_text, n_results, max_length, where_dict, where_document_dict) ==
  [k \in QueryParamKeys(where_dict, where_document_dict) |->
     CASE k = "query_texts" -> <<query_text>>
       [] k = "n_results" -> EffectiveNResults(n_results, max_length)
       [] k = "where" -> where_dict
       [] k = "where_document" -> where_document_dict]

NoParams == [k \in {} |-> 0]

\* What collection.query(n_results=n) may return: the first batch of each
\* field, aligned with ids when present.
QueryResults(n) ==
  {[ids |-> List([i \in 1..k |-> "id"]),
    documents |-> IF doc THEN List([i \in 1..k |-> "doc"]) ELSE None,
    metadatas |-> IF meta THEN List([i \in 1..k |-> "meta"]) ELSE None,
    distances |-> IF dist THEN List([i \in 1..k |-> 0]) ELSE None] :
     k \in {0, n}, doc \in BOOLEAN, meta \in BOOLEAN, dist \in BOOLEAN}

\* The keys of result_data (lines 196-208).
ResultColumns(r, include_distances) ==
  {c \in {"ids", "documents", "metadatas", "distances"} :
     Truthy(r[c]) /\ (c = "distances" => include_distances)}

NoQuery == [kind |-> "none", columns |-> {}, stats |-> FALSE]
QueryFailed == [kind |-> "query_failed", columns |-> {}, stats |-> FALSE]

\* Lines 192-221: what the query block shows for a returned result.
QueryView(r, include_distances) ==
  IF Truthy(r.ids)
    THEN [kind |-> "query_results", columns |-> ResultColumns(r, include_distances),
          stats |-> include_distances /\ "distances" \in ResultColumns(r, include_distances)]
    ELSE [kind |-> "query_none", columns |-> {}, stats |-> FALSE]

\* The warnings the two filters give.
Warnings(w, wd) ==
  (IF w.warned THEN {"metadata filter"} ELSE {})
    \cup (IF wd.warned THEN {"document filter"} ELSE {})

\* ------------------------------------------------------------- state
VARIABLES
  collections,   \* client.list_collections(): the names, in list order
  idx,           \* position of the for loop (0 before it starts)
  pc,            \* where the run is
  attempted,     \* names whose try block was entered, in order
  nCalls,        \* per-collection store calls made in this run
  errors,        \* names the per-collection handler reported, in order
  data,          \* collection.get() of this iteration
  count,         \* the "Count: N items" header (len(ids)), -1 when not shown
  lengths, max_length, df_data,
  view,          \* what the run rendered for this collection
  widget_keys,   \* the keys of the widgets created in this run
  nWidgets,      \* how many widgets were created in this run
  browse_btn, browse_limit, browse_offset, browse_results,
  browse_raised, \* whether the paged fetch raised
  page_calls,    \* arguments of the paged fetches of this iteration
  browse_view,   \* what the browse tab shows
  query_text, n_results, include_distances, where_filter, where_document_filter,
  where_dict, where_document_dict, query_params,
  warnings,      \* the filters warned about
  query_calls,   \* arguments of the query calls of this iteration
  query_raised,  \* whether collection.query raised
  query_view     \* what the query block shows

reconVars == <<data, count, lengths, max_length, df_data>>
widgetVars == <<widget_keys, nWidgets>>
browseVars ==
  <<browse_btn, browse_limit, browse_offset, browse_results, browse_raised, page_calls,
    browse_view>>
queryVars ==
  <<query_text, n_results, include_distances, where_filter, where_document_filter,
    where_dict, where_document_dict, query_params, warnings, query_calls,
    query_raised, query_view>>
vars ==
  <<collections, idx, pc, attempted, nCalls, errors, reconVars, view, widgetVars,
    browseVars, queryVars>>

NoLengths == [ids |-> 0, embeddings |-> 0, metadatas |-> 0, documents |-> 0]
Blank == [kind |-> "blank", name |-> "", step |-> ""]
Msg(k) == [kind |-> k, name |-> collections[idx], step |-> ""]

Init ==
  /\ collections \in Listings
  /\ idx = 0
  /\ pc = "list"
  /\ attempted = <<>>
  /\ nCalls = 0
  /\ errors = <<>>
  /\ data = NoData
  /\ count = -1
  /\ lengths = NoLengths
  /\ max_length = 0
  /\ df_data = EmptyDf
  /\ view = Blank
  /\ widget_keys = {}
  /\ nWidgets = 0
  /\ browse_btn = FALSE
  /\ browse_limit = 0
  /\ browse_offset = 0
  /\ browse_results = NoPage
  /\ browse_raised = FALSE
  /\ page_calls = <<>>
  /\ browse_view = NoBrowse
  /\ query_text = ""
  /\ n_results = 0
  /\ include_distances = FALSE
  /\ where_filter = ""
  /\ where_document_filter = ""
  /\ where_dict = PyNone
  /\ where_document_dict = PyNone
  /\ query_params = NoParams
  /\ warnings = {}
  /\ query_calls = <<>>
  /\ query_raised = FALSE
  /\ query_view = NoQuery

\* Mutant: the emptiness test is inverted.
ListCollectionsInverted ==
  /\ pc = "list"
  /\ IF collections # <<>>
       THEN view' = [kind |-> "no_collections", name |-> "", step |-> ""]
       ELSE view' = view
  /\ pc' = "done"
  /\ idx' = idx
  /\ UNCHANGED <<collections, attempted, nCalls, errors, reconVars, widgetVars, browseVars,
                 queryVars>>

\* Lines 39-48: list the collections; none: say so and return.
ListCollections ==
  /\ pc = "list"
  /\ IF collections = <<>>
       THEN /\ view' = [kind |-> "no_collections", name |-> "", step |-> ""]
            /\ pc' = "done"
            /\ idx' = idx
       ELSE /\ view' = view
            /\ pc' = "get"
            /\ idx' = 1
  /\ UNCHANGED <<collections, attempted, nCalls, errors, reconVars, widgetVars, browseVars, queryVars>>

\* Lines 230-232: the per-collection handler reports the collection and the
\* exception (here: the step that raised it) and continues.
CollectionError(step) ==
  /\ view' = [kind |-> "error", name |-> collections[idx], step |-> step]
  /\ errors' = Append(errors, collections[idx])
  /\ pc' = IF OnCollectionError = "continue" THEN "end_iter" ELSE "done"

\* Lines 49-55: enter the try block and fetch everything.
Get ==
  /\ pc = "get"
  /\ attempted' = Append(attempted, collections[idx])
  /\ nCalls' = nCalls + 1
  /\ \/ /\ CollectionError("get")        \* collection.get() raises
        /\ UNCHANGED reconVars
     \/ /\ \E d \in GetResults : data' = d
        /\ pc' = "reconcile"
        /\ UNCHANGED <<count, lengths, max_length, df_data, view, errors>>
  /\ UNCHANGED <<collections, idx, widgetVars, browseVars, queryVars>>

\* Lines 57-88 and 227-228: header, lengths, max_length, df_data.
Reconcile ==
  /\ pc = "reconcile"
  /\ IF LenRaises(data.ids)
       THEN /\ CollectionError("reconcile")
            /\ UNCHANGED <<count, lengths, max_length, df_data>>
       ELSE /\ errors' = errors
            /\ count' = Len(data.ids.items)
            /\ lengths' = Lengths(data)
            /\ max_length' = MaxLength(Lengths(data))
            /\ IF MaxLength(Lengths(data)) = 0
                 THEN /\ view' = Msg("empty")
                      /\ pc' = "end_iter"
                      /\ df_data' = df_data
                 ELSE /\ df_data' = DfData(data, MaxLength(Lengths(data)))
                      /\ IF DOMAIN DfData(data, MaxLength(Lengths(data))) # {}
                           THEN /\ pc' = "table"
                                /\ view' = view
                           ELSE /\ view' = Msg("inconsistent")
                                /\ pc' = "end_iter"
  /\ UNCHANGED <<collections, idx, attempted, nCalls, data, widgetVars, browseVars, queryVars>>

\* Registering the widgets of `kinds` for collection `name`.
CreateWidgets(kinds, name) ==
  /\ widget_keys' = widget_keys \cup {WidgetKey(k, name) : k \in kinds}
  /\ nWidgets' = nWidgets + Cardinality(kinds)

\* Lines 89-119: build and show the DataFrame, open the two tabs, create
\* the query widgets.  The fetched arrays and df_data are not read after
\* this point.
ShowTable ==
  /\ pc = "table"
  /\ view' = Msg("table")
  /\ pc' = "browse"
  /\ data' = NoData
  /\ lengths' = NoLengths
  /\ df_data' = EmptyDf
  /\ CreateWidgets(QueryWidgets, collections[idx])
  /\ UNCHANGED <<collections, idx, attempted, nCalls, count, max_length, errors,
                 browseVars, queryVars>>

\* Lines 121-156: the browse tab.  Its widgets return what the user set;
\* a pressed button fetches one page and shows it.
BrowseTab ==
  /\ pc = "browse"
  /\ pc' = "exit_browse"
  /\ CreateWidgets(BrowseWidgets, collections[idx])
  /\ \E limit \in BrowseLimits, offset \in BrowseOffsets, pressed \in BOOLEAN :
       /\ browse_limit' = limit
       /\ browse_offset' = offset
       /\ browse_btn' = pressed
       /\ IF pressed
            THEN /\ page_calls' = Append(page_calls, PageArgs(limit, offset))
                 /\ nCalls' = nCalls + 1
                 /\ \/ /\ browse_raised' = TRUE         \* the fetch raises
                       /\ browse_results' = NoPage
                       /\ browse_view' = BrowseFailed
                    \/ \E r \in PageResults :
                         /\ browse_raised' = FALSE
                         /\ browse_results' = r
                         /\ browse_view' = BrowseView(r, offset)
            ELSE UNCHANGED <<page_calls, nCalls, browse_results, browse_raised,
                             browse_view>>
  /\ UNCHANGED <<collections, idx, attempted, errors, reconVars, view, queryVars>>

\* Line 156 to 158: the tab's block ends; nothing it set is read again.
ExitBrowseTab ==
  /\ pc = "exit_browse"
  /\ pc' = "query"
  /\ browse_btn' = FALSE
  /\ browse_limit' = 0
  /\ browse_offset' = 0
  /\ browse_results' = NoPage
  /\ browse_raised' = FALSE
  /\ page_calls' = <<>>
  /\ browse_view' = NoBrowse
  /\ UNCHANGED <<collections, idx, attempted, nCalls, errors, reconVars, view, widgetVars,
                 queryVars>>

\* Lines 158-225: the query block, with the values the query widgets of
\* lines 99-119 returned.  Those values are what the user set before the
\* run and nothing reads them earlier, so they are drawn here.
QueryBlock ==
  /\ pc = "query"
  /\ pc' = "end_iter"
  /\ \E text \in QueryTexts, n \in NResultsValues, dist \in BOOLEAN,
        w \in FilterTexts, wd \in FilterTexts :
       /\ query_text' = text
       /\ n_results' = n
       /\ include_distances' = dist
       /\ where_filter' = w
       /\ where_document_filter' = wd
       /\ IF text = ""
            THEN UNCHANGED <<where_dict, where_document_dict, query_params, warnings,
                             query_calls, query_raised, query_view, nCalls>>
            ELSE /\ where_dict' = ParseFilter(w).dict
                 /\ where_document_dict' =
                      IF ParseFilter(w).raised THEN PyNone ELSE ParseFilter(wd).dict
                 /\ warnings' =
                      IF ParseFilter(w).raised
                        THEN {}
                        ELSE Warnings(ParseFilter(w), ParseFilter(wd))
                 /\ IF ParseFilter(w).raised \/ ParseFilter(wd).raised
                      THEN /\ query_view' = QueryFailed
                           /\ UNCHANGED <<query_params, query_calls, query_raised, nCalls>>
                      ELSE /\ query_params' =
                                QueryParams(text, n, max_length, ParseFilter(w).dict,
                                            ParseFilter(wd).dict)
                           /\ query_calls' = Append(query_calls, query_params')
                           /\ nCalls' = nCalls + 1
                           /\ \/ /\ query_raised' = TRUE
                                 /\ query_view' = QueryFailed
                              \/ /\ query_raised' = FALSE
                                 /\ \E r \in QueryResults(query_params'["n_results"]) :
                                      query_view' = QueryView(r, dist)
  /\ UNCHANGED <<collections, idx, attempted, errors, reconVars, view, widgetVars,
                 browseVars>>

\* Line 48: the for loop moves to the next collection, or ends.
NextCollection ==
  /\ pc = "end_iter"
  /\ IF idx < Len(collections)
       THEN idx' = idx + 1 /\ pc' = "get"
       ELSE idx' = idx /\ pc' = "done"
  /\ data' = NoData
  /\ count' = -1
  /\ lengths' = NoLengths
  /\ max_length' = 0
  /\ df_data' = EmptyDf
  /\ view' = Blank
  /\ query_text' = ""
  /\ n_results' = 0
  /\ include_distances' = FALSE
  /\ where_filter' = ""
  /\ where_document_filter' = ""
  /\ where_dict' = PyNone
  /\ where_document_dict' = PyNone
  /\ query_params' = NoParams
  /\ warnings' = {}
  /\ query_calls' = <<>>
  /\ query_raised' = FALSE
  /\ query_view' = NoQuery
  /\ UNCHANGED <<collections, attempted, nCalls, errors, widgetVars, browseVars>>

Next ==
  \/ ListCollections
  \/ Get
  \/ Reconcile
  \/ ShowTable
  \/ BrowseTab
  \/ ExitBrowseTab
  \/ QueryBlock
  \/ NextCollection

Spec == Init /\ [][Next]_vars

\* ------------------------------------------------------------ claims
\* The length of a fetched field, an absent one counting 0.
ArrayLen(a) == IF a.none THEN 0 ELSE Len(a.items)
MaxArrayLen(d) ==
  Max2(Max2(ArrayLen(d.ids), ArrayLen(d.documents)),
       Max2(ArrayLen(d.metadatas), ArrayLen(d.embeddings)))
Fields == {"ids", "documents", "metadatas", "embeddings"}
FieldsOfMaxLen(d) == {f \in Fields : ArrayLen(d[f]) = MaxArrayLen(d)}
ColumnOf(f) == IF f = "embeddings" THEN "embeddings_count" ELSE f

\* The reconciliation of lines 57-88 has run on the fetched arrays.
ReconcileActed ==
  \/ pc = "table"
  \/ /\ pc = "end_iter"
     /\ \/ view.kind \in {"empty", "inconsistent"}
        \/ view.kind = "error" /\ view.step = "reconcile"

\* C1: whatever four arrays were fetched (each absent or of any length),
\* reconciling ends in the empty state (exactly when the maximum length is
\* 0), in the inconsistent state, or in a table whose columns are exactly
\* the fields of maximum length; it never raises.
C1_ReconcileNeverRaises ==
  ReconcileActed =>
    /\ view.kind # "error"
    /\ (MaxArrayLen(data) = 0) <=> (view.kind = "empty")
    /\ \/ view.kind = "empty"
       \/ view.kind = "inconsistent"
       \/ /\ pc = "table"
          /\ DOMAIN df_data = {ColumnOf(f) : f \in FieldsOfMaxLen(data)}

\* C2: a query asks the store for min(nResults, number of ids) results,
\* between 1 and 50 and never more than the number of ids.
C2_ClampToItemCount ==
  query_calls # <<>> =>
    LET n == query_calls[1]["n_results"] IN
      /\ n = Min2(n_results, count)
      /\ n >= NResultsMin
      /\ n <= NResultsMax
      /\ n <= count

FailsToParse(text) == text # "" /\ ~JsonLoads(text).ok
ParsesTruthy(text) == text # "" /\ JsonLoads(text).ok /\ PyTruthy(JsonLoads(text).value)
ParsesOk(text) == text # "" /\ JsonLoads(text).ok
QueryBlockActed == pc = "end_iter" /\ view.kind = "table"

C5_EveryCollectionAttempted ==
  /\ attempted = SubSeq(collections, 1, IF pc \in {"list", "get"} THEN idx - 1 ELSE idx)
  /\ pc = "done" => attempted = collections
  /\ view.kind = "error" =>
       /\ pc = "end_iter"
       /\ view.name = collections[idx]
       /\ errors # <<>>
       /\ errors[Len(errors)] = collections[idx]
  /\ \A i \in 1..Len(errors) :
       /\ \E j \in 1..Len(attempted) : attempted[j] = errors[i]
       /\ \A j \in 1..Len(errors) : i # j => errors[i] # errors[j]

C5_Witness ==
  /\ pc = "done"
  /\ Len(collections) = 2
  /\ errors = <<collections[1]>>
  /\ attempted = collections
  /\ nCalls >= 2

PageAligned(r) ==
  \A c \in {"documents", "metadatas"} : Truthy(r[c]) => Len(r[c].items) = Len(r.ids.items)
BrowsePressed == pc = "exit_browse" /\ browse_btn

\* C6 as stated: a pressed Browse calls the paged fetch with exactly the
\* limit and offset entered; k >= 1 ids returned give a table of k rows and
\* the range offset..offset+k; no ids give "no items in the range".
C6_BrowseShowsReturnedIds ==
  BrowsePressed =>
    /\ page_calls = <<[limit |-> browse_limit, offset |-> browse_offset]>>
    /\ ~browse_raised =>
         LET k == ArrayLen(browse_results.ids) IN
           /\ k >= 1 =>
                browse_view = [kind |-> "browse_table", rows |-> k,
                               from |-> browse_offset, to |-> browse_offset + k]
           /\ k = 0 => browse_view.kind = "browse_none"

\* C6 amended: as C6 when every non-empty documents/metadatas array of the
\* page has as many entries as ids; when one has not, no table can be built
\* and the tab reports that the browse failed.
C6_BrowseShowsAlignedPage ==
  BrowsePressed =>
    /\ page_calls = <<[limit |-> browse_limit, offset |-> browse_offset]>>
    /\ ~browse_raised =>
         LET k == ArrayLen(browse_results.ids) IN
           /\ (k >= 1 /\ PageAligned(browse_results)) =>
                browse_view = [kind |-> "browse_table", rows |-> k,
                               from |-> browse_offset, to |-> browse_offset + k]
           /\ (k >= 1 /\ ~PageAligned(browse_results)) =>
                browse_view.kind = "browse_failed"
           /\ k = 0 => browse_view.kind = "browse_none"

C6_Witness ==
  /\ BrowsePressed
  /\ browse_limit = BrowseLimitDefault
  /\ browse_offset = 1
  /\ ~browse_raised
  /\ ArrayLen(browse_results.ids) = 2
  /\ Truthy(browse_results.documents)
  /\ browse_view = [kind |-> "browse_table", rows |-> 2, from |-> 1, to |-> 3]

\* Components of one embedding (none for an absent one).
Components(e) == IF e.none THEN 0 ELSE Len(e.items)
AllOfLength(d, n) == \A f \in Fields : ~d[f].none /\ Len(d[f].items) = n

\* C7: four arrays of one positive length N give a table of N rows and the
\* four columns ids, documents, metadatas and the per-item component count
\* of the embeddings.
C7_EqualLengthsGiveFullTable ==
  \A n \in 1..(MaxLen + 1) :
    (ReconcileActed /\ AllOfLength(data, n)) =>
      /\ pc = "table"
      /\ DOMAIN df_data = {"ids", "documents", "metadatas", "embeddings_count"}
      /\ Rows(df_data) = n
      /\ \A c \in DOMAIN df_data : Len(df_data[c]) = n
      /\ df_data["ids"] = data.ids.items
      /\ df_data["documents"] = data.documents.items
      /\ df_data["metadatas"] = data.metadatas.items
      /\ \A i \in 1..n :
           df_data["embeddings_count"][i] = Components(data.embeddings.items[i])

C7_Witness ==
  /\ pc = "table"
  /\ AllOfLength(data, MaxLen)
  /\ Rows(df_data) = MaxLen
  /\ df_data["embeddings_count"][1] = EmbDim
  /\ \E i \in 1..MaxLen : df_data["embeddings_count"][i] = 0

\* C8: a store that lists no collection gets the "no collections found"
\* message and no per-collection call.
C8_NoCollectionsNoCalls ==
  (collections = <<>> /\ pc # "list") =>
    /\ pc = "done"
    /\ view.kind = "no_collections"
    /\ nCalls = 0
    /\ attempted = <<>>
    /\ page_calls = <<>>
    /\ query_calls = <<>>

C8_Witness == collections = <<>> /\ pc = "done" /\ view.kind = "no_collections"

\* C9: no two widgets created in one run share a key.
C9_WidgetKeysDistinct == Cardinality(widget_keys) = nWidgets

\* C10: the inconsistent state is never reached, and arrays whose maximum
\* length is positive always give a table.
C10_TableAlwaysBuilt ==
  /\ view.kind # "inconsistent"
  /\ (ReconcileActed /\ MaxArrayLen(data) > 0) =>
       /\ pc = "table"
       /\ DOMAIN df_data # {}
====
